---- MODULE Spec2Model ----
(***************************************************************************)
(* State-machine model of the sonic-draft progressive heatmap sampler      *)
(* (TopDownCoverage.vue, SideElevation.vue, VisualizationPanel.vue) and of *)
(* the regime selection of the point SPL evaluation (useAcoustics).        *)
(*                                                                         *)
(* The view mode is fixed for a behaviour: it decides which canvases are    *)
(* mounted (top, side, or both in split view).                             *)
(* Every handler runs to completion on the single JS thread, so each       *)
(* handler (store mutation with its flushed watchers, timer callback) is   *)
(* one action.  requestAnimationFrame callbacks run frame by frame: a      *)
(* frame runs, in request order, every callback that was pending when the  *)
(* frame began; callbacks requested during a frame run in the next one.    *)
(***************************************************************************)
EXTENDS Integers, Sequences, FiniteSets, TLC

\* ---------------------------------------------------------------- bounds
GridCols == 2          \* heatmap tiles along x: ceil((maxX - padding) / resolution)
GridRows == 2          \* heatmap tiles along y: ceil((maxY - padding) / resolution)
MaxGen == 2            \* cap on a surface's heatmapGeneration
MaxChanges == 2        \* cap on the number of watched store mutations
TickMs == 35           \* granularity of the modelled clock, in ms
SplitMaxGen == 3       \* cap on the sum of the two heatmapGenerations when both canvases are mounted
SplitMaxChanges == 2   \* cap on watched store mutations when both canvases are mounted
MaxQuantity == 4       \* largest deployed quantity drawn for point evaluation
MaxDist == 4           \* largest source distance (m) drawn for point evaluation
MaxHalfAngle == 40     \* largest off-axis angle (half degrees) drawn for one axis
MaxCoverage == 6       \* largest coverage angle (degrees) drawn for one axis
MaxOffAxis == 8        \* largest off-axis angle (half degrees) drawn for two axes
MaxDispersion == 3     \* largest dispersion (degrees) drawn for two axes

\* ------------------------------------------------------ program constants
DebounceDelay == 70    \* requestDrawDebounced(delay = 70)

Surfaces == {"top", "side"}

\* The catalog: ids that getSpeakerById resolves.  MissingId is an id that
\* is not in speakerDatabase.
CatalogIds == {"a"}
MissingId == "missing"
Undefined == "undefined"

VARIABLES
    \* stores
    params,              \* version of roomStore.dimensions / speakerStore.deployment
    selectedSpeakerId,   \* speakerStore.selectedSpeakerId
    showSPL,             \* settingsStore.showSPL
    viewMode,            \* settingsStore.viewMode
    lastRowInRoom,       \* side canvas geometry: the centre of the last tile row is not below the floor
    \* per canvas component
    heatmapGeneration,   \* let heatmapGeneration
    isComputingHeatmap,  \* isComputingHeatmap.value
    rafId,               \* requestDraw's frame callback is pending (rafId != null)
    rafQueue,            \* the document's pending animation-frame callbacks, in request order
    debounceId,          \* id of the last timer set by requestDrawDebounced (0 = null)
    timers,              \* pending setTimeout callbacks: records [id, age]
    jobs,                \* the startHeatmap closures created so far, in creation order
    \* VisualizationPanel
    panelComputing,      \* topComputing / sideComputing
    \* observation of the debounce
    changes,             \* number of watched store mutations so far
    firedSince,          \* debounce callbacks run per surface since the last mutation
    \* point evaluation
    pin,                 \* arguments of the acoustics function being evaluated
    pout                 \* its result

vars == <<params, selectedSpeakerId, showSPL, viewMode, lastRowInRoom,
          heatmapGeneration, isComputingHeatmap, rafId, rafQueue, debounceId, timers, jobs,
          panelComputing, changes, firedSince, pin, pout>>

\* v-if / v-else-if of VisualizationPanel: the canvases that are mounted.
Mounted ==
    IF viewMode = "split" THEN {"top", "side"}
    ELSE IF viewMode = "topDown" THEN {"top"} ELSE {"side"}

\* MaxGen bounds one canvas; split view bounds the two canvases together.
GenCap == IF viewMode = "split" THEN SplitMaxGen ELSE MaxGen

ChangeCap == IF viewMode = "split" THEN SplitMaxChanges ELSE MaxChanges

\* ------------------------------------------------------------- catalog
getSpeakerById(id) == IF id \in CatalogIds THEN id ELSE Undefined

selectedSpeaker == getSpeakerById(selectedSpeakerId)

\* ------------------------------------------------------- timers
\* Variant: requestDrawDebounced without the clearTimeout call.
clearTimeout_noop(ts, id) == ts

\* clearTimeout(debounceId): drops the timer with that id, if still pending.
clearTimeout(ts, id) == {t \in ts : t.id # id}

\* requestDrawDebounced: clear the previous timer, set a new one.
requestDrawDebounced(ts, dId, newId) == clearTimeout(ts, dId) \cup {[id |-> newId, age |-> 0]}

\* A watched source changed: the watcher of every mounted canvas runs
\* requestDrawDebounced() before any timer or frame callback.
WatchersRun ==
    /\ changes < ChangeCap
    /\ changes' = changes + 1
    /\ timers' = [s \in Surfaces |->
                    IF s \in Mounted
                    THEN requestDrawDebounced(timers[s], debounceId[s], changes + 1)
                    ELSE timers[s]]
    /\ debounceId' = [s \in Surfaces |-> IF s \in Mounted THEN changes + 1 ELSE debounceId[s]]
    /\ firedSince' = [s \in Surfaces |-> 0]

\* ------------------------------------------------------------ heatmap job
\* Split view stacks the two canvases (grid-rows-2): each gets half the height.
Rows == IF viewMode = "split" THEN GridRows \div 2 ELSE GridRows
CellCount == GridCols * Rows

\* Variant: one counter shared by the two canvases.
BumpGen_shared(gen, s) == [t \in Surfaces |-> gen[t] + 1]

\* ++heatmapGeneration / heatmapGeneration++ of one component instance.
BumpGen(gen, s) == [gen EXCEPT ![s] = @ + 1]

\* Variant: the job captures the counter before the increment.
CapturedToken_stale(gen, s) == gen[s]

\* The token a new job captures: const currentGen = ++heatmapGeneration.
CapturedToken(gen, s) == gen[s] + 1

\* Variant: step() without the token comparison.
Superseded_never(currentGen, gen) == FALSE

\* if (currentGen !== heatmapGeneration) at the start of step().
Superseded(currentGen, gen) == currentGen # gen

\* emit('heatmap-start') / emit('heatmap-end') as handled by the panel:
\* @heatmap-start="topComputing = true" @heatmap-end="topComputing = false".
EmitStart(pc, s) == [pc EXCEPT ![s] = TRUE]
EmitEnd(pc, s) == [pc EXCEPT ![s] = FALSE]

\* One tile of step(): the inputs its evaluation reads and whether it paints.
\*   speaker : the speaker object passed to startHeatmap (captured)
\*   dep     : speakerStore.deployment / roomStore.width, read when the tile
\*             is evaluated
\*   pos     : side view: speakerPosition, computed once in startHeatmap;
\*             top view: derived from roomStore.width inside the evaluation
\*   painted : the side view skips a tile whose roomY is outside [0, height]
\*   at      : heatmapGeneration of the canvas when the tile is evaluated
EvalTile(s, job, gen, px, py) ==
    [px |-> px, py |-> py, at |-> gen, speaker |-> job.speaker, dep |-> params,
     pos |-> IF s = "side" THEN job.snap ELSE params,
     painted |-> (s = "top") \/ (py < Rows - 1) \/ lastRowInRoom]

\* Variant: the yield happens before py += resolution, so the saved cursor
\* still points at the tile just painted.
RECURSIVE Slice_repeat(_, _, _, _, _, _, _)
Slice_repeat(s, job, gen, px, py, cells, k) ==
    IF px < GridCols
    THEN IF py < Rows
         THEN LET done == Append(cells, EvalTile(s, job, gen, px, py))
              IN  IF k = 1
                  THEN [px |-> px, py |-> py, cells |-> done, yielded |-> TRUE]
                  ELSE Slice_repeat(s, job, gen, px, py + 1, done, k - 1)
         ELSE Slice_repeat(s, job, gen, px + 1, 0, cells, k)
    ELSE [px |-> px, py |-> py, cells |-> cells, yielded |-> FALSE]

\* The two nested while loops of step(), started at the saved cursor.  k is
\* the number of tiles after which performance.now() - frameStart > budget
\* first holds in this slice.
RECURSIVE Slice(_, _, _, _, _, _, _)
Slice(s, job, gen, px, py, cells, k) ==
    IF px < GridCols
    THEN IF py < Rows
         THEN LET done == Append(cells, EvalTile(s, job, gen, px, py))
              IN  IF k = 1
                  THEN [px |-> px, py |-> py + 1, cells |-> done, yielded |-> TRUE]
                  ELSE Slice(s, job, gen, px, py + 1, done, k - 1)
         ELSE Slice(s, job, gen, px + 1, 0, cells, k)
    ELSE [px |-> px, py |-> py, cells |-> cells, yielded |-> FALSE]

\* The job closure created by startHeatmap: captured token and speaker, the
\* values computed once at creation (snap), the cursor, what it has done.
NewJob(gen, s, speaker) ==
    [currentGen |-> CapturedToken(gen, s), speaker |-> speaker,
     snap |-> params, px |-> 0, py |-> 0, cells |-> <<>>,
     status |-> "scheduled", ended |-> FALSE]

\* Entries of the animation-frame callback list.
DrawCb(s) == [kind |-> "draw", s |-> s, job |-> 0]
StepCb(s, i) == [kind |-> "step", s |-> s, job |-> i]

\* The heatmap state of the two canvases, of the panel and of the frame
\* callback list, as one value.
Heat == [gen |-> heatmapGeneration, comp |-> isComputingHeatmap,
         panel |-> panelComputing, jobs |-> jobs, raf |-> rafId, queue |-> rafQueue]

SetHeat(h) ==
    /\ heatmapGeneration' = h.gen
    /\ isComputingHeatmap' = h.comp
    /\ panelComputing' = h.panel
    /\ jobs' = h.jobs
    /\ rafId' = h.raf
    /\ rafQueue' = h.queue

\* requestDraw(): cancelAnimationFrame(rafId) if set, then request draw().
requestDraw(h, s) ==
    [h EXCEPT !.raf[s] = TRUE,
              !.queue = Append(SelectSeq(h.queue, LAMBDA e : e # DrawCb(s)), DrawCb(s))]

\* startHeatmap(ctx, speaker), ending with requestAnimationFrame(step).
startHeatmap(h, s, speaker) ==
    [h EXCEPT !.gen = BumpGen(h.gen, s),
              !.comp[s] = TRUE,
              !.panel = IF h.comp[s] THEN h.panel ELSE EmitStart(h.panel, s),
              !.jobs[s] = Append(@, NewJob(h.gen, s, speaker)),
              !.queue = Append(@, StepCb(s, Len(h.jobs[s]) + 1))]

\* The else branch of draw(): SPL display off cancels an in-flight job.
cancelHeatmap(h, s) ==
    [h EXCEPT !.gen = BumpGen(h.gen, s),
              !.comp[s] = FALSE,
              !.panel = IF h.comp[s] THEN EmitEnd(h.panel, s) ELSE h.panel]

\* draw(): returns before touching the heatmap when no speaker resolves.
draw(h, s) ==
    IF selectedSpeaker = Undefined THEN h
    ELSE IF showSPL THEN startHeatmap(h, s, selectedSpeaker)
         ELSE cancelHeatmap(h, s)

\* step(), first branch: the job finds its token superseded.
stepAborted(h, s, i) ==
    [h EXCEPT !.comp[s] = FALSE,
              !.panel = EmitEnd(h.panel, s),
              !.jobs[s][i].status = "aborted",
              !.jobs[s][i].ended = TRUE]

\* Variant: a yielding slice saves its cursor but does not request the
\* next frame.
stepRun_noRaf(h, s, i, k) ==
    LET job == h.jobs[s][i]
        r == Slice(s, job, h.gen[s], job.px, job.py, job.cells, k)
    IN  IF r.yielded
        THEN [h EXCEPT !.jobs[s][i].px = r.px, !.jobs[s][i].py = r.py,
                       !.jobs[s][i].cells = r.cells]
        ELSE [h EXCEPT !.comp[s] = FALSE,
                       !.panel = EmitEnd(h.panel, s),
                       !.jobs[s][i].px = r.px, !.jobs[s][i].py = r.py,
                       !.jobs[s][i].cells = r.cells,
                       !.jobs[s][i].status = "done",
                       !.jobs[s][i].ended = TRUE]

\* step(), otherwise: run the loops from the cursor; either yield with
\* requestAnimationFrame(step) or fall through to the "done" tail.
stepRun(h, s, i, k) ==
    LET job == h.jobs[s][i]
        r == Slice(s, job, h.gen[s], job.px, job.py, job.cells, k)
    IN  IF r.yielded
        THEN [h EXCEPT !.jobs[s][i].px = r.px, !.jobs[s][i].py = r.py,
                       !.jobs[s][i].cells = r.cells,
                       !.queue = Append(@, StepCb(s, i))]
        ELSE [h EXCEPT !.comp[s] = FALSE,
                       !.panel = EmitEnd(h.panel, s),
                       !.jobs[s][i].px = r.px, !.jobs[s][i].py = r.py,
                       !.jobs[s][i].cells = r.cells,
                       !.jobs[s][i].status = "done",
                       !.jobs[s][i].ended = TRUE]

step(h, s, i, k) ==
    IF Superseded(h.jobs[s][i].currentGen, h.gen[s])
    THEN stepAborted(h, s, i)
    ELSE stepRun(h, s, i, k)

\* The callback requestDraw registered: rafId = null; draw().
drawCallback(h, s) == draw([h EXCEPT !.raf[s] = FALSE], s)

\* What running one callback can leave behind: a step's outcome depends on
\* when its time budget runs out.
runCallback(h, e) ==
    IF e.kind = "draw" THEN {drawCallback(h, e.s)}
    ELSE {step(h, e.s, e.job, k) : k \in 1..(CellCount + 1)}

\* One animation frame: the callbacks q[n], q[n+1], ... run in order from
\* any of the heat values hs; the result is every heat value the frame can
\* end with.
RECURSIVE runFrame(_, _, _)
runFrame(hs, q, n) ==
    IF n > Len(q) THEN hs
    ELSE runFrame(UNION {runCallback(h, q[n]) : h \in hs}, q, n + 1)

\* defineExpose({ draw }) as called by the panel: every mounted canvas draws.
drawMounted(h) ==
    LET h1 == IF "top" \in Mounted THEN draw(h, "top") ELSE h
    IN  IF "side" \in Mounted THEN draw(h1, "side") ELSE h1

\* Number of further draws the caps leave room for: every pending draw
\* callback will take one generation when its frame runs.
GenRoom ==
    GenCap - (heatmapGeneration["top"] + heatmapGeneration["side"])
           - Cardinality({s \in Surfaces : rafId[s]})

\* ------------------------------------------------------------- actions
\* The browser runs one animation frame.
Frame ==
    /\ rafQueue # <<>>
    /\ \E h \in runFrame({[Heat EXCEPT !.queue = <<>>]}, rafQueue, 1) : SetHeat(h)
    /\ UNCHANGED <<params, selectedSpeakerId, showSPL, viewMode, lastRowInRoom,
                   debounceId, timers, changes, firedSince, pin, pout>>

\* The debounce timer callback: () => requestDraw().
TimerFire(s) ==
    /\ \E t \in timers[s] :
          /\ t.age >= DebounceDelay
          /\ timers' = [timers EXCEPT ![s] = @ \ {t}]
    /\ rafId[s] \/ GenRoom >= 1
    /\ SetHeat(requestDraw(Heat, s))
    /\ firedSince' = [firedSince EXCEPT ![s] = @ + 1]
    /\ UNCHANGED <<params, selectedSpeakerId, showSPL, viewMode, lastRowInRoom,
                   debounceId, changes, pin, pout>>

\* handleResize / ResizeObserver: requestDraw().
Resize(s) ==
    /\ s \in Mounted
    /\ rafId[s] \/ GenRoom >= 1
    /\ requestDraw(Heat, s) # Heat
    /\ SetHeat(requestDraw(Heat, s))
    /\ UNCHANGED <<params, selectedSpeakerId, showSPL, viewMode, lastRowInRoom,
                   debounceId, timers, changes, firedSince, pin, pout>>

\* VisualizationPanel.setViewMode(mode) with the mode already shown: viewMode
\* does not change; after nextTick the visible canvases draw() directly.
setViewMode ==
    /\ GenRoom >= Cardinality(Mounted)
    /\ selectedSpeaker # Undefined
    /\ SetHeat(drawMounted(Heat))
    /\ UNCHANGED <<params, selectedSpeakerId, showSPL, viewMode, lastRowInRoom,
                   debounceId, timers, changes, firedSince, pin, pout>>

Min(a, b) == IF a < b THEN a ELSE b

\* Time passes: TickMs more on every pending timer (ages saturate at the delay).
Tick ==
    /\ \E s \in Surfaces : \E t \in timers[s] : t.age < DebounceDelay
    /\ timers' = [s \in Surfaces |->
                    {[id |-> t.id, age |-> Min(t.age + TickMs, DebounceDelay)] : t \in timers[s]}]
    /\ UNCHANGED <<params, selectedSpeakerId, showSPL, viewMode, lastRowInRoom,
                   heatmapGeneration, isComputingHeatmap, rafId, rafQueue, debounceId,
                   jobs, panelComputing, changes, firedSince, pin, pout>>

\* A room-store or speaker-store action that changes roomStore.dimensions or
\* speakerStore.deployment (setWidth, setQuantity, setTiltAngle, ...).
ChangeParam ==
    /\ WatchersRun
    /\ params' = params + 1
    /\ UNCHANGED <<selectedSpeakerId, showSPL, viewMode, lastRowInRoom,
                   heatmapGeneration, isComputingHeatmap, rafId, rafQueue, jobs,
                   panelComputing, pin, pout>>

\* settingsStore.toggleSPL()
toggleSPL ==
    /\ WatchersRun
    /\ showSPL' = ~showSPL
    /\ UNCHANGED <<params, selectedSpeakerId, viewMode, lastRowInRoom,
                   heatmapGeneration, isComputingHeatmap, rafId, rafQueue, jobs,
                   panelComputing, pin, pout>>

\* speakerStore.selectSpeaker(id): ignored when the id does not resolve.
selectSpeaker(id) ==
    /\ getSpeakerById(id) # Undefined
    /\ id # selectedSpeakerId
    /\ WatchersRun
    /\ selectedSpeakerId' = id
    /\ params' = params + 1           \* deployment.speakerId is part of the deployment
    /\ UNCHANGED <<showSPL, viewMode, lastRowInRoom, heatmapGeneration,
                   isComputingHeatmap, rafId, rafQueue, jobs, panelComputing, pin, pout>>

\* The store exposes selectedSpeakerId as writable state; a write of an id
\* the catalog does not hold leaves selectedSpeaker undefined.
PatchSpeakerId ==
    /\ selectedSpeakerId # MissingId
    /\ WatchersRun
    /\ selectedSpeakerId' = MissingId
    /\ params' = params + 1
    /\ UNCHANGED <<showSPL, viewMode, lastRowInRoom, heatmapGeneration,
                   isComputingHeatmap, rafId, rafQueue, jobs, panelComputing, pin, pout>>

\* ------------------------------------------------------ point evaluation
\* The (type, arrayable) combinations the speaker catalog holds.
CatalogKinds ==
    {[type |-> "line_array", arrayable |-> TRUE],
     [type |-> "subwoofer", arrayable |-> TRUE],
     [type |-> "point_source", arrayable |-> FALSE]}

\* The specs.maxSPL (dB), specs.couplingCoefficient (in hundredths) and
\* dispersions (degrees) drawn for point evaluation, as found in the catalog.
CatalogSpecs ==
    {[maxSPL |-> 135, coupling |-> 90, horzDispersion |-> 105, vertDispersion |-> 10],
     [maxSPL |-> 139, coupling |-> 92, horzDispersion |-> 110, vertDispersion |-> 12]}

\* deployment.horizontalAim and deployment.tiltAngle, in half degrees.
Aimings == [horizontalAim : {0, 20}, tiltAngle : {0, 10}]

\* Where the point lies as seen from the source: the distance (m) and the
\* two Math.atan2 angles to the target, in half degrees.  A point at the
\* source itself has distance 0 and Math.atan2(0, 0) = 0 in both planes.
Placements ==
    {[dist |-> 0, horzToTarget |-> 0, vertToTarget |-> 0]}
    \cup {[dist |-> d, horzToTarget |-> g.h, vertToTarget |-> g.v] :
              d \in 1..MaxDist, g \in {[h |-> 0, v |-> 0], [h |-> 30, v |-> 16]}}

\* Arguments of calculateSPLAtPoint: the speaker's type, arrayable flag and
\* specs, the deployment's quantity and aiming, and the point's placement.
PointInputs ==
    {[type |-> c.type, arrayable |-> c.arrayable, quantity |-> q,
      maxSPL |-> sp.maxSPL, coupling |-> sp.coupling,
      horzDispersion |-> sp.horzDispersion, vertDispersion |-> sp.vertDispersion,
      horizontalAim |-> a.horizontalAim, tiltAngle |-> a.tiltAngle,
      dist |-> pl.dist, horzToTarget |-> pl.horzToTarget,
      vertToTarget |-> pl.vertToTarget] :
        c \in CatalogKinds, q \in 1..MaxQuantity, sp \in CatalogSpecs,
        a \in Aimings, pl \in Placements}

\* ---- fixed-point arithmetic for the dB computations
\* Lengths and ratios are held in thousandths (1000 = 1.0), levels in
\* thousandths of a dB.  Math.log10 is computed digit by digit: the
\* argument is brought into [1, 10), then squared ten times, each overflow
\* past 10 giving one binary digit of the fraction.
RECURSIVE log10Fraction(_, _, _)
log10Fraction(x, bit, acc) ==
    IF bit = 0 THEN acc
    ELSE LET y == (x * x) \div 1000
         IN  IF y >= 10000 THEN log10Fraction(y \div 10, bit \div 2, acc + bit)
             ELSE log10Fraction(y, bit \div 2, acc)

RECURSIVE log10Scaled(_, _)
log10Scaled(x, n) ==
    IF x >= 10000 THEN log10Scaled(x \div 10, n + 1)
    ELSE IF x < 1000 THEN log10Scaled(x * 10, n - 1)
    ELSE n * 1000 + (log10Fraction(x, 512, 0) * 1000) \div 1024

\* Math.log10(x / 1000) in thousandths, for x > 0.
log10(x) == log10Scaled(x, 0)

\* calculateInverseSquare(distance, maxSPL); distance in m, maxSPL and the
\* result in thousandths of a dB.
calculateInverseSquare(dist, maxSPL) ==
    IF dist <= 0
    THEN [fn |-> "calculateInverseSquare", branch |-> "maxSPL", spl |-> maxSPL]
    ELSE [fn |-> "calculateInverseSquare", branch |-> "spherical",
          spl |-> maxSPL - 20 * log10(dist * 1000)]

\* const transitionDistance = (lineLength * lineLength) / wavelength, in
\* thousandths of a metre; lineLength in tenths of a metre, wavelength 0.343.
transitionDistance(lineLength) == (lineLength * lineLength * 10000) \div 343

\* const effectiveMaxSPL = maxSPL + 20 * Math.log10(couplingCoefficient)
effectiveMaxSPL(maxSPL, coupling) == maxSPL + 20 * log10(coupling * 10)

\* Near field: effectiveMaxSPL - 10 * Math.log10(distance); d in thousandths.
nearField(effSPL, d) == effSPL - 10 * log10(d)

\* Variant: the far field anchored 6 dB per doubling from 1 m instead of at
\* the transition level.
farField_unanchored(effSPL, lt, d) == effSPL - 20 * log10(d)

\* Far field: splAtTransition - 20 * Math.log10(distance / transitionDistance).
farField(effSPL, lt, d) ==
    LET splAtTransition == effSPL - 10 * log10(lt)
        farFieldDistance == (d * 1000) \div lt
    IN  splAtTransition - 20 * log10(farFieldDistance)

\* Variant: the near field without the coupling term of effectiveMaxSPL.
calculateCylindricalLoss_noCoupling(dist, maxSPL, lineLength, coupling) ==
    IF dist <= 0
    THEN [fn |-> "calculateCylindricalLoss", branch |-> "maxSPL", spl |-> maxSPL]
    ELSE IF lineLength <= 0 THEN calculateInverseSquare(dist, maxSPL)
    ELSE IF 343 * dist <= 10 * lineLength * lineLength
         THEN [fn |-> "calculateCylindricalLoss", branch |-> "near",
               spl |-> nearField(maxSPL, dist * 1000)]
         ELSE [fn |-> "calculateCylindricalLoss", branch |-> "far",
               spl |-> farField(effectiveMaxSPL(maxSPL, coupling),
                                transitionDistance(lineLength), dist * 1000)]

\* calculateCylindricalLoss(distance, maxSPL, lineLength, coupling);
\* distance in m, lineLength in tenths of a metre, coupling in hundredths.
\* distance <= transitionDistance is 343 * distance <= 10 * lineLength^2.
calculateCylindricalLoss(dist, maxSPL, lineLength, coupling) ==
    IF dist <= 0
    THEN [fn |-> "calculateCylindricalLoss", branch |-> "maxSPL", spl |-> maxSPL]
    ELSE IF lineLength <= 0 THEN calculateInverseSquare(dist, maxSPL)
    ELSE IF 343 * dist <= 10 * lineLength * lineLength
         THEN [fn |-> "calculateCylindricalLoss", branch |-> "near",
               spl |-> nearField(effectiveMaxSPL(maxSPL, coupling), dist * 1000)]
         ELSE [fn |-> "calculateCylindricalLoss", branch |-> "far",
               spl |-> farField(effectiveMaxSPL(maxSPL, coupling),
                                transitionDistance(lineLength), dist * 1000)]

\* const arrayGain = 10 * Math.log10(deployment.quantity) * coupling
arrayGain(quantity, coupling) == (10 * log10(quantity * 1000) * coupling) \div 100

\* ---- off-axis attenuation
\* Angles are held in half degrees and coverage angles in whole degrees, so
\* that halfCoverage = coverageAngle / 2 is the coverage angle's number read
\* in angle units.  Attenuations are in thousandths of a dB.
Abs(x) == IF x < 0 THEN -x ELSE x

Max(a, b) == IF a > b THEN a ELSE b

\* Variant: the coverage edge taken as the -3 dB point.
withinCoverage_3dB(absAngle, halfCoverage) ==
    -((3000 * absAngle * absAngle) \div (halfCoverage * halfCoverage))

\* Within coverage: const ratio = absAngle / halfCoverage; -6 * ratio * ratio.
withinCoverage(absAngle, halfCoverage) ==
    -((6000 * absAngle * absAngle) \div (halfCoverage * halfCoverage))

\* Variant: the roll-off beyond coverage without its floor.
beyondCoverage_unclamped(absAngle, halfCoverage) ==
    -6000 + (-1000 * (absAngle - halfCoverage))

\* Beyond coverage: -2 dB per degree past the edge, i.e. 1 dB per half
\* degree: Math.max(-6 + rolloffRate * excessAngle, -40).
beyondCoverage(absAngle, halfCoverage) ==
    Max(-6000 + (-1000 * (absAngle - halfCoverage)), -40000)

getOffAxisAttenuation(angle, coverageAngle) ==
    IF coverageAngle <= 0 THEN 0
    ELSE LET absAngle == Abs(angle)
             halfCoverage == coverageAngle
         IN  IF absAngle <= halfCoverage
             THEN withinCoverage(absAngle, halfCoverage)
             ELSE beyondCoverage(absAngle, halfCoverage)

\* x * 0.5 for an attenuation x <= 0, to the thousandth of a dB.
half(x) == -((-x) \div 2)

\* Variant: the two planes' attenuations added in full.
getCombinedAttenuation_sum(horzAngle, vertAngle, horzDispersion, vertDispersion) ==
    getOffAxisAttenuation(horzAngle, horzDispersion)
        + getOffAxisAttenuation(vertAngle, vertDispersion)

getCombinedAttenuation(horzAngle, vertAngle, horzDispersion, vertDispersion) ==
    LET horzAtten == getOffAxisAttenuation(horzAngle, horzDispersion)
        vertAtten == getOffAxisAttenuation(vertAngle, vertDispersion)
    IN  Min(horzAtten, vertAtten) + half(Max(horzAtten, vertAtten))

\* Variant: the regime test without the quantity comparison.
UsesLineArray_anyQuantity(p) == p.type = "line_array" /\ p.arrayable

\* The condition of the if in calculateSPLAtPoint.
UsesLineArray(p) == p.type = "line_array" /\ p.quantity > 1 /\ p.arrayable

\* calculateSPLAtPoint: the base SPL computation it selects.
\* calculateHorizontalAngle / calculateVerticalAngle:
\* Math.abs(angleToTarget - aimAngle), Math.abs(angleToTarget - tiltAngle).
calculateHorizontalAngle(angleToTarget, aimAngle) == Abs(angleToTarget - aimAngle)

calculateVerticalAngle(angleToTarget, tiltAngle) == Abs(angleToTarget - tiltAngle)

calculateSPLAtPoint(p) ==
    LET horzAngle == calculateHorizontalAngle(p.horzToTarget, p.horizontalAim)
        vertAngle == calculateVerticalAngle(p.vertToTarget, p.tiltAngle)
        r == IF UsesLineArray(p)
             THEN calculateCylindricalLoss(p.dist,
                      p.maxSPL * 1000 + arrayGain(p.quantity, p.coupling),
                      p.quantity * 3, p.coupling)
             ELSE calculateInverseSquare(p.dist, p.maxSPL * 1000)
        attenuation == getCombinedAttenuation(horzAngle, vertAngle,
                                              p.horzDispersion, p.vertDispersion)
    IN  [evaluated |-> TRUE, baseFn |-> r.fn, branch |-> r.branch, baseSPL |-> r.spl,
         spl |-> r.spl + attenuation, horzAngle |-> horzAngle, vertAngle |-> vertAngle,
         attenuation |-> attenuation,
         inCoverage |-> horzAngle <= p.horzDispersion /\ vertAngle <= p.vertDispersion]

NotEvaluated ==
    [evaluated |-> FALSE, baseFn |-> "none", branch |-> "none", baseSPL |-> 0,
     spl |-> 0, horzAngle |-> 0, vertAngle |-> 0, attenuation |-> 0,
     inCoverage |-> FALSE]

\* A caller evaluates the point.
Evaluate ==
    /\ ~pout.evaluated
    /\ pout' = calculateSPLAtPoint(pin)
    /\ UNCHANGED <<params, selectedSpeakerId, showSPL, viewMode, lastRowInRoom,
                   heatmapGeneration, isComputingHeatmap, rafId, rafQueue, debounceId,
                   timers, jobs, panelComputing, changes, firedSince, pin>>

\* The next call, with other arguments.
NewInput ==
    /\ pout.evaluated
    /\ pin' \in PointInputs
    /\ pout' = NotEvaluated
    /\ UNCHANGED <<params, selectedSpeakerId, showSPL, viewMode, lastRowInRoom,
                   heatmapGeneration, isComputingHeatmap, rafId, rafQueue, debounceId,
                   timers, jobs, panelComputing, changes, firedSince>>

\* The canvases and the stores are left alone by the acoustics functions.
SchedIdle ==
    UNCHANGED <<params, selectedSpeakerId, showSPL, viewMode, lastRowInRoom,
                heatmapGeneration, isComputingHeatmap, rafId, rafQueue, debounceId,
                timers, jobs, panelComputing, changes, firedSince>>

\* Arguments of getOffAxisAttenuation.
OffAxisInputs ==
    [angle : -MaxHalfAngle..MaxHalfAngle, coverageAngle : -1..MaxCoverage]

OffAxisPending == [evaluated |-> FALSE, atten |-> 0]

\* A call of getOffAxisAttenuation.
EvaluateOffAxis ==
    /\ ~pout.evaluated
    /\ pout' = [evaluated |-> TRUE,
                atten |-> getOffAxisAttenuation(pin.angle, pin.coverageAngle)]
    /\ UNCHANGED pin
    /\ SchedIdle

\* The next call, at another angle or for another coverage angle.
SetAngle ==
    /\ pout.evaluated
    /\ \E a \in -MaxHalfAngle..MaxHalfAngle : pin' = [pin EXCEPT !.angle = a]
    /\ pout' = OffAxisPending
    /\ SchedIdle

SetCoverage ==
    /\ pout.evaluated
    /\ \E c \in -1..MaxCoverage : pin' = [pin EXCEPT !.coverageAngle = c]
    /\ pout' = OffAxisPending
    /\ SchedIdle

\* Arguments of getCombinedAttenuation.
CombinedInputs ==
    [horzAngle : 0..MaxOffAxis, vertAngle : 0..MaxOffAxis,
     horzDispersion : 0..MaxDispersion, vertDispersion : 0..MaxDispersion]

CombinedPending == [evaluated |-> FALSE, atten |-> 0]

\* A call of getCombinedAttenuation.
EvaluateCombined ==
    /\ ~pout.evaluated
    /\ pout' = [evaluated |-> TRUE,
                atten |-> getCombinedAttenuation(pin.horzAngle, pin.vertAngle,
                                                 pin.horzDispersion, pin.vertDispersion)]
    /\ UNCHANGED pin
    /\ SchedIdle

\* The next call, with one plane's angle or dispersion changed.
SetPlane ==
    /\ pout.evaluated
    /\ \/ \E a \in 0..MaxOffAxis : pin' = [pin EXCEPT !.horzAngle = a]
       \/ \E a \in 0..MaxOffAxis : pin' = [pin EXCEPT !.vertAngle = a]
       \/ \E c \in 0..MaxDispersion : pin' = [pin EXCEPT !.horzDispersion = c]
       \/ \E c \in 0..MaxDispersion : pin' = [pin EXCEPT !.vertDispersion = c]
    /\ pout' = CombinedPending
    /\ SchedIdle

\* ---- multi-source combination (calculateMultiSourceSPL)
\* The sources a deployment can drive, and the spl the single-source
\* evaluation returned for each at the point.  Levels are whole multiples of
\* 10 dB, for which the intensity 10^(spl/10) is a whole number.
SourceNames == {"center", "left", "right", "fill"}

Levels == {60000, 70000, 80000}

CombinerInputs ==
    [deploymentMode : {"L/R Stereo", "Center Mono"},
     centerFillEnabled : BOOLEAN,
     gain : {-10000, 0},
     spl : [SourceNames -> Levels]]

\* Variant: the center fill summed whether or not it is enabled.
activeSources_fillAlways(p) ==
    (IF p.deploymentMode = "L/R Stereo" THEN <<"left", "right">> ELSE <<"center">>)
        \o <<"fill">>

\* The active sources: one centered source or the two stereo sources, plus
\* the center fill if enabled.
activeSources(p) ==
    (IF p.deploymentMode = "L/R Stereo" THEN <<"left", "right">> ELSE <<"center">>)
        \o (IF p.centerFillEnabled THEN <<"fill">> ELSE <<>>)

RECURSIVE pow10(_)
pow10(k) == IF k <= 0 THEN 1 ELSE 10 * pow10(k - 1)

\* I = 10^(spl / 10), spl in thousandths of a dB.
dbToIntensity(spl) == pow10(spl \div 10000)

\* 10 * log10(I) in thousandths of a dB, for a whole intensity I > 0.
intensityToDb(intensity) == 10 * log10Scaled(intensity, 3)

\* A source's contribution: its spl, the center fill's scaled by its gain.
contribution(p, s) == p.spl[s] + (IF s = "fill" THEN p.gain ELSE 0)

RECURSIVE sumIntensity(_, _)
sumIntensity(p, srcs) ==
    IF srcs = <<>> THEN 0
    ELSE dbToIntensity(contribution(p, Head(srcs))) + sumIntensity(p, Tail(srcs))

calculateMultiSourceSPL(p) ==
    [evaluated |-> TRUE,
     totalSPL |-> intensityToDb(sumIntensity(p, activeSources(p)))]

CombinerPending == [evaluated |-> FALSE, totalSPL |-> 0]

\* A call of calculateMultiSourceSPL.
EvaluateCombiner ==
    /\ ~pout.evaluated
    /\ pout' = calculateMultiSourceSPL(pin)
    /\ UNCHANGED pin
    /\ SchedIdle

\* The next call, for another deployment or another point.
NewCombination ==
    /\ pout.evaluated
    /\ pin' \in CombinerInputs
    /\ pout' = CombinerPending
    /\ SchedIdle

\* ---- coverage analysis (analyzeCoverage)
\* const totalPoints = 100; const gridSize = 10
totalPoints == 100

gridSize == 10

\* Math.tan of an angle given in half degrees, in thousandths, for the top
\* edge angles the drawn tilts and dispersions produce.  Math.tan(Math.PI)
\* is -1.2e-16: negative, entered as the smallest negative value.
tan ==
    [a \in {10, 20, 40, 50, 70, 90, 120, 270, 340, 360, 390} |->
        CASE a = 10 -> 87      [] a = 20 -> 176    [] a = 40 -> 364
          [] a = 50 -> 466     [] a = 70 -> 700    [] a = 90 -> 1000
          [] a = 120 -> 1732   [] a = 270 -> -1000 [] a = 340 -> -176
          [] a = 360 -> -1     [] a = 390 -> 268]

\* a / b for b # 0, rounded down.
quotient(a, b) == IF b > 0 THEN a \div b ELSE (-a) \div (-b)

\* Variant: an intersection exactly at the back wall counted as inside.
checkCeilingIntersection_backWall(speakerHeight, tiltAngle, vertDispersion, ceilingHeight, depth) ==
    LET topAngle == tiltAngle - vertDispersion
    IN  IF topAngle < 0
        THEN LET risePerMeter == tan[Abs(topAngle)]
                 intersectionDistance ==
                     quotient((ceilingHeight - speakerHeight) * 1000000, risePerMeter)
             IN  intersectionDistance <= depth * 1000 /\ intersectionDistance > 0
        ELSE FALSE

\* checkCeilingIntersection: heights and depth in m, tiltAngle in half
\* degrees, vertDispersion in degrees (so vertDispersion / 2 is its number
\* in half degrees); the intersection distance in mm.
checkCeilingIntersection(speakerHeight, tiltAngle, vertDispersion, ceilingHeight, depth) ==
    LET topAngle == tiltAngle - vertDispersion
    IN  IF topAngle < 0
        THEN LET risePerMeter == tan[Abs(topAngle)]
                 intersectionDistance ==
                     quotient((ceilingHeight - speakerHeight) * 1000000, risePerMeter)
             IN  intersectionDistance < depth * 1000 /\ intersectionDistance > 0
        ELSE FALSE

\* The three representative listener positions, all at x = width / 2 and
\* ear height 1.4 m: z = depth / 2, z = 3 and z = depth - 1.
Positions == {"centerStage", "frontRow", "backRow"}

\* The spl calculateSPLAtPoint returns for a source at a representative
\* position: p.spl is the source's level at the front row, and every source
\* is 10 dB down at mid-depth and 20 dB down at the back row.
positionSPL(p, s, pos) ==
    p.spl[s] - (CASE pos = "frontRow" -> 0 [] pos = "centerStage" -> 10000
                  [] pos = "backRow" -> 20000)

\* The sample point of grid cell (xi, zi), in mm:
\* x = (room.width * (xi + 0.5)) / gridSize,
\* z = ((room.depth - 2) * (zi + 0.5)) / gridSize + 2.
gridX(p, xi) == (p.width * (2 * xi + 1) * 1000) \div (2 * gridSize)

gridZ(p, zi) == ((p.depth - 2) * (2 * zi + 1) * 1000) \div (2 * gridSize) + 2000

\* The spl calculateSPLAtPoint returns for the centered source at a floor
\* point: the mid-depth level, falling p.fall per metre of depth and p.side
\* per metre off the center line (thousandths of a dB per metre).
floorSPL(p, x, z) ==
    positionSPL(p, "center", "centerStage")
        + ((p.depth * 500 - z) * p.fall) \div 1000
        - (Abs(x - p.width * 500) * p.side) \div 1000

\* Variant: the adequacy window with its bounds excluded.
isAdequate_exclusive(spl, centerStageSPL) ==
    spl > centerStageSPL - 10000 /\ spl < centerStageSPL + 6000

\* result.spl >= centerStage.spl - 10 && result.spl <= centerStage.spl + 6
isAdequate(spl, centerStageSPL) ==
    spl >= centerStageSPL - 10000 /\ spl <= centerStageSPL + 6000

\* The inner loop: for (let zi = 0; zi < gridSize; zi++), from zi on.
RECURSIVE innerLoop(_, _, _, _)
innerLoop(p, centerStageSPL, xi, zi) ==
    IF zi >= gridSize THEN 0
    ELSE LET spl == floorSPL(p, gridX(p, xi), gridZ(p, zi))
         IN  (IF isAdequate(spl, centerStageSPL) THEN 1 ELSE 0)
                 + innerLoop(p, centerStageSPL, xi, zi + 1)

\* The outer loop: for (let xi = 0; xi < gridSize; xi++), from xi on.
RECURSIVE pointsInCoverage(_, _, _)
pointsInCoverage(p, centerStageSPL, xi) ==
    IF xi >= gridSize THEN 0
    ELSE innerLoop(p, centerStageSPL, xi, 0) + pointsInCoverage(p, centerStageSPL, xi + 1)

analyzeCoverage(p) ==
    LET centerStage == positionSPL(p, "center", "centerStage")
        frontRow == positionSPL(p, "center", "frontRow")
        backRow == positionSPL(p, "center", "backRow")
    IN  [evaluated |-> TRUE,
         centerStageSPL |-> centerStage,
         frontRowSPL |-> frontRow,
         backRowSPL |-> backRow,
         frontToBackRatio |-> frontRow - backRow,
         hasCeilingReflection |->
             checkCeilingIntersection(p.trimHeight, p.tiltAngle, p.vertDispersion,
                                      p.height, p.depth),
         coveragePercentage |->
             (pointsInCoverage(p, centerStage, 0) * 100) \div totalPoints]

AnalysisPending ==
    [evaluated |-> FALSE, centerStageSPL |-> 0, frontRowSPL |-> 0, backRowSPL |-> 0,
     frontToBackRatio |-> 0, hasCeilingReflection |-> FALSE, coveragePercentage |-> 0]

\* A room, a deployment and a field to analyse: the default ones, then the
\* deployments, the ceiling geometries and the floor fields drawn.
AnalysisDefault ==
    [width |-> 10, depth |-> 12, height |-> 8, trimHeight |-> 3,
     tiltAngle |-> 0, vertDispersion |-> 10,
     deploymentMode |-> "L/R Stereo", centerFillEnabled |-> FALSE, gain |-> 0,
     spl |-> [s \in SourceNames |-> 70000], fall |-> 0, side |-> 0]

AnalysisDeployments ==
    {[AnalysisDefault EXCEPT !.deploymentMode = c.deploymentMode,
                             !.centerFillEnabled = c.centerFillEnabled,
                             !.gain = c.gain, !.spl = c.spl] : c \in CombinerInputs}

AnalysisGeometries ==
    {[AnalysisDefault EXCEPT !.tiltAngle = ta, !.vertDispersion = vd,
                             !.height = h, !.depth = d] :
        ta \in {-30, 0, 20, 90}, vd \in {10, 20, 90, 360}, h \in {4, 8}, d \in {5, 10}}

AnalysisFields ==
    {[AnalysisDefault EXCEPT !.depth = d, !.fall = f, !.side = sd] :
        d \in {5, 12}, f \in {0, 4000, 8000}, sd \in {0, 1000}}

AnalysisInputs == AnalysisDeployments \cup AnalysisGeometries \cup AnalysisFields

\* coverageAnalysis: a call of analyzeCoverage.
EvaluateAnalysis ==
    /\ ~pout.evaluated
    /\ pout' = analyzeCoverage(pin)
    /\ UNCHANGED pin
    /\ SchedIdle

\* The room or the deployment changes and the analysis is computed again.
NewAnalysis ==
    /\ pout.evaluated
    /\ pin' \in AnalysisInputs
    /\ pout' = AnalysisPending
    /\ SchedIdle

\* ---------------------------------------------------------- specification
\* The state after the stores are set up (settings come from localStorage)
\* and the canvases of the view mode are mounted.
SchedInit(modes) ==
    /\ params = 0
    /\ selectedSpeakerId = "a"
    /\ showSPL \in BOOLEAN
    /\ viewMode \in modes
    /\ lastRowInRoom \in (IF viewMode = "sideElevation" THEN BOOLEAN ELSE {TRUE})
    /\ heatmapGeneration = [s \in Surfaces |-> 0]
    /\ isComputingHeatmap = [s \in Surfaces |-> FALSE]
    /\ rafId = [s \in Surfaces |-> s \in Mounted]   \* onMounted: handleResize()
    /\ rafQueue = IF viewMode = "split" THEN <<DrawCb("top"), DrawCb("side")>>
                  ELSE IF viewMode = "topDown" THEN <<DrawCb("top")>>
                  ELSE <<DrawCb("side")>>
    /\ debounceId = [s \in Surfaces |-> 0]
    /\ timers = [s \in Surfaces |-> {}]
    /\ jobs = [s \in Surfaces |-> <<>>]
    /\ panelComputing = [s \in Surfaces |-> FALSE]
    /\ changes = 0
    /\ firedSince = [s \in Surfaces |-> 0]

PointIdle ==
    /\ pin = [type |-> "line_array", arrayable |-> TRUE, quantity |-> 1,
              maxSPL |-> 135, coupling |-> 90,
              horzDispersion |-> 105, vertDispersion |-> 10,
              horizontalAim |-> 0, tiltAngle |-> 0,
              dist |-> 1, horzToTarget |-> 0, vertToTarget |-> 0]
    /\ pout = NotEvaluated

Init == SchedInit({"topDown", "sideElevation"}) /\ PointIdle

InitSplit == SchedInit({"split"}) /\ PointIdle

Next ==
    \/ Frame
    \/ \E s \in Surfaces : TimerFire(s)
    \/ \E s \in Surfaces : Resize(s)
    \/ setViewMode
    \/ Tick
    \/ ChangeParam
    \/ toggleSPL
    \/ \E id \in CatalogIds : selectSpeaker(id)
    \/ PatchSpeakerId

Spec == Init /\ [][Next]_vars

SpecSplit == InitSplit /\ [][Next]_vars

\* The browser keeps running animation frames while callbacks are pending.
\* Redraw requests and frames, with the room and the deployment left alone.
NextLive ==
    \/ Frame
    \/ \E s \in Surfaces : TimerFire(s)
    \/ \E s \in Surfaces : Resize(s)
    \/ setViewMode
    \/ Tick
    \/ toggleSPL

SpecLive == Init /\ [][NextLive]_vars /\ WF_vars(Frame)

\* Point evaluation on its own: calls of calculateSPLAtPoint over the inputs.
InitPoint == SchedInit({"topDown"}) /\ pin \in PointInputs /\ pout = NotEvaluated

NextPoint == Evaluate \/ NewInput

SpecPoint == InitPoint /\ [][NextPoint]_vars

\* Single-axis attenuation on its own: calls of getOffAxisAttenuation.
InitOffAxis == SchedInit({"topDown"}) /\ pin \in OffAxisInputs /\ pout = OffAxisPending

NextOffAxis == EvaluateOffAxis \/ SetAngle \/ SetCoverage

SpecOffAxis == InitOffAxis /\ [][NextOffAxis]_vars

\* Two-plane attenuation on its own: calls of getCombinedAttenuation.
InitCombined == SchedInit({"topDown"}) /\ pin \in CombinedInputs /\ pout = CombinedPending

NextCombined == EvaluateCombined \/ SetPlane

SpecCombined == InitCombined /\ [][NextCombined]_vars

\* The multi-source combiner on its own: calls of calculateMultiSourceSPL.
InitCombiner == SchedInit({"topDown"}) /\ pin \in CombinerInputs /\ pout = CombinerPending

NextCombiner == EvaluateCombiner \/ NewCombination

SpecCombiner == InitCombiner /\ [][NextCombiner]_vars

\* Coverage analysis on its own: evaluations of coverageAnalysis.
InitAnalysis == SchedInit({"topDown"}) /\ pin \in AnalysisInputs /\ pout = AnalysisPending

NextAnalysis == EvaluateAnalysis \/ NewAnalysis

SpecAnalysis == InitAnalysis /\ [][NextAnalysis]_vars

TypeOK ==
    /\ params \in 0..ChangeCap
    /\ \A s \in Surfaces : heatmapGeneration[s] \in 0..GenCap
    /\ \A s \in Surfaces : Len(jobs[s]) <= GenCap

\* ------------------------------------------------------------------ claims
JobIds(s) == 1..Len(jobs[s])

\* The tiles of the grid in cursor order: column by column, top to bottom.
IsCursorPrefix(cells) ==
    \A n \in 1..Len(cells) :
        /\ cells[n].px = (n - 1) \div Rows
        /\ cells[n].py = (n - 1) % Rows

\* C1: once a canvas's heatmapGeneration has moved past a job's token, the
\* job evaluates no further tile: every tile of a job was evaluated while the
\* counter still equalled the job's token, and no step adds a tile to a job
\* whose token differs from the counter.
C1_SupersededPaintsNothing ==
    /\ [](\A s \in Surfaces : \A i \in JobIds(s) :
            \A n \in 1..Len(jobs[s][i].cells) :
                jobs[s][i].cells[n].at = jobs[s][i].currentGen)
    /\ [][\A s \in Surfaces : \A i \in JobIds(s) :
            jobs[s][i].currentGen # heatmapGeneration[s]
                => jobs'[s][i].cells = jobs[s][i].cells]_vars

\* A job was superseded part-way through its grid, saw it, and a newer job
\* of the same canvas has evaluated tiles.
C1_Witness ==
    \E s \in Surfaces : \E i, j \in JobIds(s) :
        /\ i < j
        /\ jobs[s][i].status = "aborted"
        /\ Len(jobs[s][i].cells) \in 1..(CellCount - 1)
        /\ Len(jobs[s][j].cells) >= 1

\* C2: a job emits heatmap-end and clears the computing flag only when its
\* cursor reached the end of the grid while its token was current; a job that
\* finds itself superseded emits nothing and clears nothing.
C2_OnlyCompletionReports ==
    \A s \in Surfaces : \A i \in JobIds(s) :
        jobs[s][i].ended =>
            /\ jobs[s][i].status = "done"
            /\ Len(jobs[s][i].cells) = CellCount

\* C4: every tile of a job is computed from the room dimensions and the
\* deployment as they were when the job was created.
C4_SingleSnapshot ==
    \A s \in Surfaces : \A i \in JobIds(s) :
        \A n \in 1..Len(jobs[s][i].cells) :
            /\ jobs[s][i].cells[n].dep = jobs[s][i].snap
            /\ jobs[s][i].cells[n].pos = jobs[s][i].snap

\* C5: the tiles a job has visited are always an initial stretch of the grid in
\* cursor order, none skipped and none repeated, and a job that reports
\* completion has visited the whole grid.
C5_EveryCellOnceInOrder ==
    \A s \in Surfaces : \A i \in JobIds(s) :
        /\ IsCursorPrefix(jobs[s][i].cells)
        /\ Len(jobs[s][i].cells) <= CellCount
        /\ jobs[s][i].status = "done" => Len(jobs[s][i].cells) = CellCount

\* A job reported completion on a grid of more than one tile, its cursor
\* past the last column.
C5_Witness ==
    \E s \in Surfaces : \E i \in JobIds(s) :
        /\ jobs[s][i].status = "done"
        /\ Len(jobs[s][i].cells) = CellCount
        /\ jobs[s][i].px = GridCols
        /\ jobs[s][i].py = 0
        /\ CellCount > 1

\* C7: the counter of a canvas never decreases; a step that creates a job
\* advances the counter by one and the new job holds the advanced value;
\* tokens grow along the creation order and never exceed the counter, so at
\* most one job holds the current value and it is the newest one.
C7_TokenDiscipline ==
    /\ [](\A s \in Surfaces : \A i \in JobIds(s) :
            /\ jobs[s][i].currentGen <= heatmapGeneration[s]
            /\ \A j \in JobIds(s) : i < j => jobs[s][i].currentGen < jobs[s][j].currentGen
            /\ jobs[s][i].currentGen = heatmapGeneration[s] => i = Len(jobs[s]))
    /\ [][\A s \in Surfaces :
            /\ heatmapGeneration'[s] >= heatmapGeneration[s]
            /\ Len(jobs'[s]) > Len(jobs[s]) =>
                  /\ Len(jobs'[s]) = Len(jobs[s]) + 1
                  /\ heatmapGeneration'[s] = heatmapGeneration[s] + 1
                  /\ jobs'[s][Len(jobs'[s])].currentGen = heatmapGeneration'[s]]_vars

\* Two jobs exist on one canvas, the newer holds the current token and the
\* older one is still scheduled.
C7_Witness ==
    \E s \in Surfaces :
        /\ Len(jobs[s]) >= 2
        /\ jobs[s][Len(jobs[s])].currentGen = heatmapGeneration[s]
        /\ jobs[s][1].status = "scheduled"
        /\ jobs[s][1].currentGen < heatmapGeneration[s]

\* C3: a watched change only sets the debounce timer (it creates no job and
\* requests no frame); a canvas never holds a timer of an earlier change;
\* between the last change and the next one exactly one debounce callback
\* runs per mounted canvas, it is the one the last change set, it runs no
\* sooner than the debounce delay after that change, and it requests one
\* redraw; the job that redraw creates is created from the last state.
C3_OneRedrawPerBurst ==
    /\ [](\A s \in Mounted :
            /\ changes = 0 => timers[s] = {}
            /\ changes > 0 =>
                  \/ firedSince[s] = 0 /\ \E t \in timers[s] : timers[s] = {t} /\ t.id = changes
                  \/ firedSince[s] = 1 /\ timers[s] = {})
    /\ [][/\ changes' # changes =>
                /\ jobs' = jobs /\ heatmapGeneration' = heatmapGeneration
                /\ rafId' = rafId /\ rafQueue' = rafQueue
          /\ \A s \in Surfaces :
                /\ firedSince'[s] = firedSince[s] + 1 =>
                      /\ \E t \in timers[s] : t.id = changes /\ t.age >= DebounceDelay
                      /\ timers'[s] = {}
                      /\ rafId'[s]
                      /\ jobs' = jobs
                /\ Len(jobs'[s]) > Len(jobs[s]) =>
                      jobs'[s][Len(jobs'[s])].snap = params]_vars

\* After a burst of two changes one debounce callback ran, and the only job
\* created since the burst began was created from the last state.
C3_Witness ==
    \E s \in Mounted :
        /\ changes >= 2 /\ params >= 2
        /\ firedSince[s] = 1 /\ timers[s] = {}
        /\ Len(jobs[s]) >= 1
        /\ jobs[s][Len(jobs[s])].snap = params
        /\ Len(jobs[s][Len(jobs[s])].cells) >= 1
        /\ \A i \in JobIds(s) : jobs[s][i].snap \in {0, params}

\* Job i of canvas s is scheduled and holds the current token.
CurrentScheduled(s, i) ==
    /\ i \in JobIds(s)
    /\ jobs[s][i].status = "scheduled"
    /\ jobs[s][i].currentGen = heatmapGeneration[s]

\* C6: while frames keep running, no job stays scheduled with the current
\* token for ever: it reports completion unless the counter moves past its
\* token (a job leaves the scheduled state only as done or aborted); every
\* step that changes a scheduled job ends it or adds at least one tile to
\* it; a job is aborted only when the counter has moved past its token, and
\* is done only with the whole grid visited.
C6_LatestJobCompletes ==
    /\ \A s \in Surfaces : []<>(\A i \in JobIds(s) : ~CurrentScheduled(s, i))
    /\ [](\A s \in Surfaces : \A i \in JobIds(s) :
            /\ jobs[s][i].status = "aborted" => jobs[s][i].currentGen < heatmapGeneration[s]
            /\ jobs[s][i].status = "done" => Len(jobs[s][i].cells) = CellCount)
    /\ [][\A s \in Surfaces : \A i \in JobIds(s) :
            jobs[s][i].status = "scheduled" =>
                \/ jobs'[s][i] = jobs[s][i]
                \/ jobs'[s][i].status \in {"done", "aborted"}
                \/ Len(jobs'[s][i].cells) > Len(jobs[s][i].cells)]_vars

\* The newest job of a canvas reported completion holding the current
\* token, and an older job of the canvas ended by supersession.
C6_Witness ==
    \E s \in Surfaces :
        /\ Len(jobs[s]) >= 2
        /\ jobs[s][Len(jobs[s])].status = "done"
        /\ jobs[s][Len(jobs[s])].currentGen = heatmapGeneration[s]
        /\ jobs[s][1].status = "aborted"

\* The part of a heat value that belongs to canvas t.
SameOn(t, h) ==
    /\ heatmapGeneration'[t] = h.gen[t]
    /\ isComputingHeatmap'[t] = h.comp[t]
    /\ panelComputing'[t] = h.panel[t]
    /\ jobs'[t] = h.jobs[t]

OnlyCallbacksOf(t) == SelectSeq(rafQueue, LAMBDA e : e.s = t)

\* C8: what a frame, a direct draw, a timer or a resize does to one canvas's
\* counter, jobs, cursors and computing flags is what it would do were the
\* other canvas's callbacks not run at all: redraws, cancellations and
\* completions of one canvas change nothing of the other.
C8_SurfacesIndependent ==
    [][/\ (rafQueue # <<>> /\ timers' = timers /\ changes' = changes /\ Frame) =>
              \A t \in Surfaces :
                  \E h \in runFrame({[Heat EXCEPT !.queue = <<>>]}, OnlyCallbacksOf(t), 1) :
                      SameOn(t, h)
       /\ (timers' = timers /\ changes' = changes /\ rafId' = rafId /\ setViewMode) =>
              \A t \in Surfaces : SameOn(t, draw(Heat, t))
       /\ \A s \in Surfaces :
              (rafId'[s] /\ changes' = changes /\ (TimerFire(s) \/ Resize(s))) =>
                  \A t \in Surfaces \ {s} : SameOn(t, Heat) /\ rafId'[t] = rafId[t]]_vars

\* Split view: the top canvas was redrawn and its first job ended, while the
\* side canvas's first job still holds its current token, part-way through.
C8_Witness ==
    /\ viewMode = "split"
    /\ heatmapGeneration["top"] > heatmapGeneration["side"]
    /\ Len(jobs["top"]) >= 1 /\ jobs["top"][1].status = "aborted"
    /\ Len(jobs["side"]) = 1
    /\ jobs["side"][1].status = "scheduled"
    /\ jobs["side"][1].currentGen = heatmapGeneration["side"]
    /\ Len(jobs["side"][1].cells) >= 1

\* C9: when the selected id does not resolve, once the redraw that follows
\* has run on a canvas (its debounce callback fired and its draw callback is
\* no longer pending), no job of that canvas evaluates a further tile.
C9_UnresolvedStopsPainting ==
    [][\A s \in Mounted :
          (selectedSpeaker = Undefined /\ firedSince[s] >= 1 /\ ~rafId[s]) =>
              \A i \in JobIds(s) : jobs'[s][i].cells = jobs[s][i].cells]_vars

\* C10 as stated: the cylindrical (line-array) computation is used exactly
\* when the source is arrayable and the quantity is greater than 1.
C10_ArrayableAndPlural ==
    pout.evaluated =>
        ((pout.baseFn = "calculateCylindricalLoss") <=> (pin.arrayable /\ pin.quantity > 1))

\* C10 amended: the cylindrical (line-array) computation is used exactly when
\* the source's type is line array, it is arrayable and the quantity is
\* greater than 1; every other case uses the inverse-square computation.
C10_LineArrayTypeAndPlural ==
    pout.evaluated =>
        /\ (pout.baseFn = "calculateCylindricalLoss")
              <=> (pin.type = "line_array" /\ pin.arrayable /\ pin.quantity > 1)
        /\ (pout.baseFn = "calculateInverseSquare")
              <=> ~(pin.type = "line_array" /\ pin.arrayable /\ pin.quantity > 1)

\* An arrayable subwoofer deployed four deep was evaluated with the
\* inverse-square computation.
C10_Witness ==
    /\ pout.evaluated
    /\ pin.type = "subwoofer" /\ pin.arrayable /\ pin.quantity = 4
    /\ pout.baseFn = "calculateInverseSquare"

\* The line-array regime below the transition distance: 0 < d < Lt with
\* Lt = (quantity * 0.3)^2 / 0.343, i.e. 343 * d < 90 * quantity^2.
BelowTransition(p) ==
    /\ p.type = "line_array" /\ p.arrayable /\ p.quantity > 1
    /\ 0 < p.dist
    /\ 343 * p.dist < 90 * p.quantity * p.quantity

\* C11 as stated: in the line-array regime below the transition distance the
\* base SPL is effSPL - 10*log10(d), effSPL being maxSPL plus the array gain
\* 10*log10(quantity) * couplingCoefficient.
C11_NearFieldGainOnly ==
    (pout.evaluated /\ BelowTransition(pin)) =>
        pout.baseSPL = pin.maxSPL * 1000
                       + (10 * log10(pin.quantity * 1000) * pin.coupling) \div 100
                       - 10 * log10(pin.dist * 1000)

\* C11 amended: in the line-array regime below the transition distance the
\* base SPL is maxSPL plus the array gain plus the coupling efficiency term
\* 20*log10(couplingCoefficient), minus 10*log10(d).
C11_NearFieldWithCoupling ==
    (pout.evaluated /\ BelowTransition(pin)) =>
        pout.baseSPL = pin.maxSPL * 1000
                       + (10 * log10(pin.quantity * 1000) * pin.coupling) \div 100
                       + 20 * log10(pin.coupling * 10)
                       - 10 * log10(pin.dist * 1000)

\* A three-element array evaluated 2 m away, well inside its 2.36 m near field.
C11_Witness ==
    /\ pout.evaluated /\ BelowTransition(pin)
    /\ pin.quantity = 3 /\ pin.dist = 2 /\ pin.coupling = 90
    /\ pout.branch = "near"

\* The level calculateSPLAtPoint hands to calculateCylindricalLoss, after the
\* coupling term, and the transition distance of the deployed array.
ArrayEffSPL(p) ==
    effectiveMaxSPL(p.maxSPL * 1000 + arrayGain(p.quantity, p.coupling), p.coupling)

ArrayLt(p) == transitionDistance(p.quantity * 3)

C14_EdgeIsMinusSixFromBothBranches ==
    (pout.evaluated /\ pin.coverageAngle > 0) =>
        LET halfCoverage == pin.coverageAngle
        IN  /\ withinCoverage(halfCoverage, halfCoverage) = -6000
            /\ beyondCoverage(halfCoverage, halfCoverage) = -6000
            /\ Abs(pin.angle) = halfCoverage => pout.atten = -6000

\* A 5 degree coverage angle evaluated 2.5 degrees off axis, on the negative
\* side.
C14_Witness ==
    /\ pout.evaluated
    /\ pin.coverageAngle = 5 /\ pin.angle = -5
    /\ pout.atten = -6000

\* C15: for every angle, positive or negative, and every coverage angle,
\* including coverage <= 0, the single-axis attenuation lies between -40 dB
\* and 0 dB inclusive, and it is exactly 0 dB at angle 0 for any positive
\* coverage angle.
C15_AttenuationRange ==
    pout.evaluated =>
        /\ -40000 <= pout.atten /\ pout.atten <= 0
        /\ (pin.angle = 0 /\ pin.coverageAngle > 0) => pout.atten = 0

\* A call 20 degrees off axis on the negative side of a 4 degree coverage
\* angle, where the linear roll-off would give -42 dB.
C15_Witness ==
    /\ pout.evaluated
    /\ pin.angle = -40 /\ pin.coverageAngle = 4
    /\ pout.atten = -40000

C13_ZeroDistanceIsReferenceSPL ==
    (pout.evaluated /\ pin.dist <= 0) =>
        pout.spl = pin.maxSPL * 1000
                   + (IF UsesLineArray(pin) THEN arrayGain(pin.quantity, pin.coupling) ELSE 0)

CombinerTotal(pos) ==
    calculateMultiSourceSPL(
        [deploymentMode |-> pin.deploymentMode,
         centerFillEnabled |-> pin.centerFillEnabled,
         gain |-> pin.gain,
         spl |-> [s \in SourceNames |-> positionSPL(pin, s, pos)]]).totalSPL

\* C18: centerStageSpl, frontRowSpl and backRowSpl of the coverage analysis
\* are the multi-source combiner's totals at the three representative
\* positions, so they reflect every active source of the deployment.
C18_AnalysisUsesCombiner ==
    pout.evaluated =>
        /\ pout.centerStageSPL = CombinerTotal("centerStage")
        /\ pout.frontRowSPL = CombinerTotal("frontRow")
        /\ pout.backRowSPL = CombinerTotal("backRow")

\* C19: hasCeilingReflection is true exactly when the top edge angle
\* tiltAngle - vertDispersion/2 is negative and the horizontal distance at
\* which that ray meets the ceiling, (ceiling - trim) / tan|top edge angle|,
\* is strictly greater than 0 and strictly less than the room depth; it is
\* false whenever the top edge angle is >= 0.
C19_CeilingReflectionExactly ==
    pout.evaluated =>
        LET topAngle == pin.tiltAngle - pin.vertDispersion
            clearance == (pin.height - pin.trimHeight) * 1000
            rise == tan[Abs(topAngle)]
            \* 0 < clearance / rise < depth, cross-multiplied
            inside == IF rise > 0
                      THEN clearance > 0 /\ clearance * 1000 < pin.depth * 1000 * rise
                      ELSE clearance < 0 /\ clearance * 1000 > pin.depth * 1000 * rise
        IN  /\ pout.hasCeilingReflection <=> (topAngle < 0 /\ inside)
            /\ topAngle >= 0 => ~pout.hasCeilingReflection

\* Tilt 0 with 20 degrees of vertical dispersion under a ceiling 1 m above
\* the array: the top edge meets the ceiling 5.7 m out in a 10 m deep room.
C19_Witness ==
    /\ pout.evaluated
    /\ pin.tiltAngle = 0 /\ pin.vertDispersion = 20
    /\ pin.height = 4 /\ pin.trimHeight = 3 /\ pin.depth = 10
    /\ pout.hasCeilingReflection

MaxLengthArg == 250     \* largest length (m) passed to a room setter
MaxQuantityArg == 25    \* largest quantity passed to a quantity setter
MaxTiltArg == 50        \* largest tilt (degrees) passed to setTiltAngle
MaxTrimArg == 25        \* largest height (m) passed to setTrimHeight

Metres(x) == 2 * x

\* A column speaker on a stand, its geometry fixed at 0 degrees of tilt.
fixedTiltColumn ==
    [id |-> "column", type |-> "column", arrayable |-> FALSE,
     maxArraySize |-> 0, compatibleSubs |-> <<>>,
     mountingOptions |-> <<[canFly |-> FALSE, maxHeight |-> Metres(3),
                            minHeight |-> <<Metres(1)>>, fixedTilt |-> <<0>>]>>]

\* The catalogue entries the stores read, in catalogue order.
speakerDatabase ==
    << [id |-> "jbl-vtx-a8", type |-> "line_array", arrayable |-> TRUE,
        maxArraySize |-> 16, compatibleSubs |-> <<"jbl-vtx-b18", "jbl-vtx-b28">>,
        mountingOptions |-> <<>>],
       [id |-> "jbl-vtx-b28", type |-> "subwoofer", arrayable |-> TRUE,
        maxArraySize |-> 12, compatibleSubs |-> <<>>,
        mountingOptions |-> <<>>],
       [id |-> "jbl-vrx932lap", type |-> "line_array", arrayable |-> TRUE,
        maxArraySize |-> 6, compatibleSubs |-> <<"jbl-vrx918sp">>,
        mountingOptions |-> <<>>],
       [id |-> "jbl-srx835p", type |-> "point_source", arrayable |-> FALSE,
        maxArraySize |-> 0, compatibleSubs |-> <<"jbl-srx828sp">>,
        mountingOptions |-> <<>>],
       [id |-> "jbl-srx828sp", type |-> "subwoofer", arrayable |-> TRUE,
        maxArraySize |-> 4, compatibleSubs |-> <<>>,
        mountingOptions |-> <<>>],
       [id |-> "qsc-la112", type |-> "line_array", arrayable |-> TRUE,
        maxArraySize |-> 6, compatibleSubs |-> <<"qsc-ls118", "qsc-ks118">>,
        mountingOptions |-> <<[canFly |-> TRUE, maxHeight |-> Metres(20),
                               minHeight |-> <<Metres(2)>>, fixedTilt |-> <<>>]>>],
       [id |-> "qsc-ls118", type |-> "subwoofer", arrayable |-> TRUE,
        maxArraySize |-> 4, compatibleSubs |-> <<>>,
        mountingOptions |-> <<[canFly |-> TRUE, maxHeight |-> Metres(15),
                               minHeight |-> <<0>>, fixedTilt |-> <<>>]>>],
       fixedTiltColumn >>

\* speakerDatabase.find((s) => s.id === id): <<>> when no entry has the id.
findSpeaker(id) ==
    LET found == SelectSeq(speakerDatabase, LAMBDA e : e.id = id)
    IN  IF Len(found) = 0 THEN <<>> ELSE <<found[1]>>

getCompatibleSubwoofers(speakerId) ==
    LET speaker == findSpeaker(speakerId)
    IN  IF Len(speaker) = 0 THEN <<>>
        ELSE LET known == SelectSeq(speaker[1].compatibleSubs,
                                    LAMBDA subId : Len(findSpeaker(subId)) > 0)
             IN  [i \in 1..Len(known) |-> findSpeaker(known[i])[1]]

SystemTypeConfigs ==
    [stereo_point_source |->
        [speakerTypes |-> {"point_source"}, defaultDeploymentMode |-> "L/R Stereo",
         defaultQuantity |-> 1, defaultHeight |-> Metres(2), usesSubs |-> TRUE],
     line_array_lr |->
        [speakerTypes |-> {"line_array"}, defaultDeploymentMode |-> "L/R Stereo",
         defaultQuantity |-> 4, defaultHeight |-> Metres(8), usesSubs |-> TRUE],
     column_array |->
        [speakerTypes |-> {"column"}, defaultDeploymentMode |-> "L/R Stereo",
         defaultQuantity |-> 1, defaultHeight |-> Metres(2), usesSubs |-> TRUE],
     distributed_system |->
        [speakerTypes |-> {"point_source", "column"},
         defaultDeploymentMode |-> "Center Mono",
         defaultQuantity |-> 1, defaultHeight |-> Metres(3), usesSubs |-> FALSE]]

\* The catalogue entries of the speaker types a system type deploys.
getSpeakersBySystemType(type) ==
    SelectSeq(speakerDatabase,
              LAMBDA e : e.type \in SystemTypeConfigs[type].speakerTypes)

\* ---- room store ----

setWidth_unclamped(s, value) == [s EXCEPT !.width = value]

setWidth(s, value) ==
    [s EXCEPT !.width = Max(Metres(5), Min(Metres(100), value))]

setDepth(s, value) ==
    [s EXCEPT !.depth = Max(Metres(5), Min(Metres(200), value))]

setHeight(s, value) ==
    [s EXCEPT !.height = Max(Metres(3), Min(Metres(30), value))]

setDimensions(s, dims) ==
    LET s1 == IF Len(dims.width) # 0 THEN setWidth(s, dims.width[1]) ELSE s
        s2 == IF Len(dims.depth) # 0 THEN setDepth(s1, dims.depth[1]) ELSE s1
    IN  IF Len(dims.height) # 0 THEN setHeight(s2, dims.height[1]) ELSE s2

\* ---- speaker store ----

maxArraySize(s) ==
    LET speaker == findSpeaker(s.selectedSpeakerId)
    IN  IF Len(speaker) # 0 /\ speaker[1].maxArraySize # 0
        THEN speaker[1].maxArraySize ELSE 12

mountingOptions(s) ==
    LET speaker == findSpeaker(s.selectedSpeakerId)
    IN  IF Len(speaker) = 0 THEN <<>> ELSE speaker[1].mountingOptions

maxDeploymentHeight(s) ==
    LET speakerMax == IF Len(mountingOptions(s)) = 0 THEN Metres(20)
                      ELSE mountingOptions(s)[1].maxHeight
        roomMax == s.height - Metres(1)
    IN  Min(speakerMax, roomMax)

minDeploymentHeight(s) ==
    IF Len(mountingOptions(s)) = 0 \/ Len(mountingOptions(s)[1].minHeight) = 0
    THEN Metres(2)
    ELSE mountingOptions(s)[1].minHeight[1]

fixedTiltValue(s) ==
    IF Len(mountingOptions(s)) = 0 THEN <<>> ELSE mountingOptions(s)[1].fixedTilt

\* The store's selectSpeaker.
storeSelectSpeaker(s, id) ==
    LET speaker == findSpeaker(id)
        compatibleSubs == getCompatibleSubwoofers(id)
        s1 == [s EXCEPT !.selectedSpeakerId = id]
        s2 == IF Len(compatibleSubs) > 0
              THEN [s1 EXCEPT !.selectedSubId = compatibleSubs[1].id]
              ELSE [s1 EXCEPT !.selectedSubId = Undefined, !.subQuantity = 0]
    IN  IF Len(speaker) = 0 THEN s
        ELSE IF speaker[1].maxArraySize # 0 /\ s2.quantity > speaker[1].maxArraySize
             THEN [s2 EXCEPT !.quantity = speaker[1].maxArraySize]
             ELSE s2

setTrimHeight(s, value) ==
    [s EXCEPT !.trimHeight =
        Max(minDeploymentHeight(s), Min(maxDeploymentHeight(s), value))]

setTiltAngle_ignoreFixed(s, value) ==
    [s EXCEPT !.tiltAngle = Max(-15, Min(45, value))]

\* hasFixedTilt is fixedTiltValue !== undefined.
setTiltAngle(s, value) ==
    IF Len(fixedTiltValue(s)) # 0
    THEN [s EXCEPT !.tiltAngle = fixedTiltValue(s)[1]]
    ELSE [s EXCEPT !.tiltAngle = Max(-15, Min(45, value))]

\* watch(() => roomStore.height): runs when the height has changed.
watchRoomHeight(old, s) ==
    LET max == Min(maxDeploymentHeight(s), s.height - Metres(1))
    IN  IF s.height = old.height THEN s
        ELSE IF s.trimHeight > max
             THEN [s EXCEPT !.trimHeight = Max(minDeploymentHeight(s), max)]
             ELSE s

\* watch(() => selectedSpeaker.value): runs when the selected catalogue entry
\* has changed.  An entry without mountingOptions makes the callback throw
\* at its first read of mounting.maxHeight, before any assignment.
watchSelectedSpeaker(old, s) ==
    LET newSpeaker == findSpeaker(s.selectedSpeakerId)
        mounting == newSpeaker[1].mountingOptions[1]
        maxHeight == Min(mounting.maxHeight, s.height - Metres(1))
        minHeight == IF Len(mounting.minHeight) = 0 THEN Metres(2)
                     ELSE mounting.minHeight[1]
        s1 == IF s.trimHeight > maxHeight THEN [s EXCEPT !.trimHeight = maxHeight] ELSE s
        s2 == IF s1.trimHeight < minHeight THEN [s1 EXCEPT !.trimHeight = minHeight] ELSE s1
        s3 == IF Len(mounting.fixedTilt) # 0
              THEN [s2 EXCEPT !.tiltAngle = mounting.fixedTilt[1]] ELSE s2
    IN  IF newSpeaker = findSpeaker(old.selectedSpeakerId) THEN s
        ELSE IF Len(newSpeaker) = 0 THEN s
        ELSE IF Len(newSpeaker[1].mountingOptions) = 0 THEN s
        ELSE IF ~newSpeaker[1].arrayable THEN [s3 EXCEPT !.quantity = 1]
        ELSE s3

\* The watcher callbacks queued by one store action, in registration order.
flushWatchers(old, s) == watchSelectedSpeaker(old, watchRoomHeight(old, s))

\* ---- calls of the store actions ----
\* Every call is followed by the watcher callbacks it has queued.

CallSetWidth ==
    \E v \in {-Metres(1), Metres(4), Metres(8), Metres(MaxLengthArg)} :
    /\ pin' = flushWatchers(pin, setWidth(pin, v))
    /\ pout' = [op |-> "setWidth"]
    /\ SchedIdle

CallSetDepth ==
    \E v \in {-Metres(1), Metres(4), Metres(8), Metres(MaxLengthArg)} :
    /\ pin' = flushWatchers(pin, setDepth(pin, v))
    /\ pout' = [op |-> "setDepth"]
    /\ SchedIdle

CallSetHeight ==
    \E v \in {-Metres(1), Metres(4), Metres(8), Metres(MaxLengthArg)} :
    /\ pin' = flushWatchers(pin, setHeight(pin, v))
    /\ pout' = [op |-> "setHeight"]
    /\ SchedIdle

CallSetDimensions ==
    \E dims \in [width : {<<>>, <<Metres(4)>>, <<Metres(MaxLengthArg)>>},
                 depth : {<<>>, <<Metres(4)>>, <<Metres(MaxLengthArg)>>},
                 height : {<<>>, <<Metres(2)>>, <<Metres(MaxLengthArg)>>}] :
    /\ pin' = flushWatchers(pin, setDimensions(pin, dims))
    /\ pout' = [op |-> "setDimensions"]
    /\ SchedIdle

\* applyPreset(preset): setDimensions(presets[preset]).
CallApplyPreset ==
    \E dims \in {[width |-> <<Metres(10)>>, depth |-> <<Metres(12)>>, height |-> <<Metres(4)>>],
                 [width |-> <<Metres(15)>>, depth |-> <<Metres(25)>>, height |-> <<Metres(6)>>],
                 [width |-> <<Metres(25)>>, depth |-> <<Metres(40)>>, height |-> <<Metres(10)>>],
                 [width |-> <<Metres(40)>>, depth |-> <<Metres(60)>>, height |-> <<Metres(20)>>]} :
    /\ pin' = flushWatchers(pin, setDimensions(pin, dims))
    /\ pout' = [op |-> "applyPreset"]
    /\ SchedIdle

\* resetToDefaults of the room store.
CallRoomResetToDefaults ==
    /\ pin' = flushWatchers(pin, [pin EXCEPT !.width = Metres(15),
                                              !.depth = Metres(20),
                                              !.height = Metres(6)])
    /\ pout' = [op |-> "room.resetToDefaults"]
    /\ SchedIdle

CallSelectSpeaker ==
    \E id \in {"jbl-vtx-a8", "jbl-vrx932lap", "jbl-srx835p", "qsc-la112",
               "column", MissingId} :
    /\ pin' = flushWatchers(pin, storeSelectSpeaker(pin, id))
    /\ pout' = [op |-> "selectSpeaker"]
    /\ SchedIdle

CallSelectSubwoofer ==
    \E id \in {Undefined, "jbl-vtx-b28", "qsc-ls118"} :
    LET s1 == [pin EXCEPT !.selectedSubId = id]
        s2 == IF id = Undefined THEN [s1 EXCEPT !.subQuantity = 0]
              ELSE IF s1.subQuantity = 0 THEN [s1 EXCEPT !.subQuantity = 2]
              ELSE s1
    IN  /\ pin' = flushWatchers(pin, s2)
        /\ pout' = [op |-> "selectSubwoofer"]
        /\ SchedIdle

CallSetQuantity ==
    \E value \in {0, 1, 5, MaxQuantityArg} :
    /\ pin' = flushWatchers(pin,
                 [pin EXCEPT !.quantity = Max(1, Min(maxArraySize(pin), value))])
    /\ pout' = [op |-> "setQuantity"]
    /\ SchedIdle

CallSetSubQuantity ==
    \E value \in {0, 1, 5, MaxQuantityArg} :
    /\ pin' = flushWatchers(pin, [pin EXCEPT !.subQuantity = Max(0, Min(12, value))])
    /\ pout' = [op |-> "setSubQuantity"]
    /\ SchedIdle

CallSetTrimHeight ==
    \E v \in {0, 5, Metres(3), Metres(MaxTrimArg)} :
    /\ pin' = flushWatchers(pin, setTrimHeight(pin, v))
    /\ pout' = [op |-> "setTrimHeight"]
    /\ SchedIdle

CallSetTiltAngle ==
    \E v \in {-MaxTiltArg, 0, 10, MaxTiltArg} :
    /\ pin' = flushWatchers(pin, setTiltAngle(pin, v))
    /\ pout' = [op |-> "setTiltAngle"]
    /\ SchedIdle

CallSetSystemType ==
    \E type \in DOMAIN SystemTypeConfigs :
    LET config == SystemTypeConfigs[type]
        s1 == [pin EXCEPT !.selectedSystemType = type,
                          !.deploymentMode = config.defaultDeploymentMode,
                          !.quantity = config.defaultQuantity,
                          !.trimHeight = config.defaultHeight]
        speakers == getSpeakersBySystemType(type)
        s2 == IF Len(speakers) > 0 THEN storeSelectSpeaker(s1, speakers[1].id) ELSE s1
        s3 == IF ~config.usesSubs
              THEN [s2 EXCEPT !.selectedSubId = Undefined, !.subQuantity = 0]
              ELSE s2
    IN  /\ pin' = flushWatchers(pin, s3)
        /\ pout' = [op |-> "setSystemType"]
        /\ SchedIdle

CallSetArraySpread ==
    \E value \in {-Metres(1), Metres(4), Metres(8), Metres(MaxLengthArg)} :
    LET maxSpread == Max(0, pin.width - Metres(2))
    IN  /\ pin' = flushWatchers(pin,
                     [pin EXCEPT !.arraySpread = Max(0, Min(maxSpread, value))])
        /\ pout' = [op |-> "setArraySpread"]
        /\ SchedIdle

\* resetToDefaults of the speaker store.
CallResetToDefaults ==
    /\ pin' = flushWatchers(pin,
                 [pin EXCEPT !.selectedSystemType = "line_array_lr",
                             !.selectedSpeakerId = "jbl-vrx932lap",
                             !.quantity = 4,
                             !.selectedSubId = "jbl-vrx918sp",
                             !.subQuantity = 2,
                             !.trimHeight = Metres(4),
                             !.tiltAngle = 8,
                             !.horizontalAim = 0,
                             !.deploymentMode = "L/R Stereo",
                             !.arraySpread = Metres(8),
                             !.centerFill = [enabled |-> FALSE, modelId |-> "", gain |-> 0]])
    /\ pout' = [op |-> "speaker.resetToDefaults"]
    /\ SchedIdle

\* autoCalculateTilt: Math.round(Math.atan2(trimHeight - 1.4, depth / 2) in
\* degrees), the two lengths in twentieths of a metre.  tanOfHalfOdd[k] is
\* tan((k - 1/2) degrees) * 10000: an angle whose tangent lies between
\* entries k and k + 1 rounds to k degrees.
CallAutoCalculateTilt ==
    LET tanOfHalfOdd ==
          << 87, 262, 437, 612, 787, 963, 1139, 1317, 1495, 1673, 1853, 2035,
             2217, 2401, 2586, 2773, 2962, 3153, 3346, 3541, 3739, 3939, 4142,
             4348, 4557, 4770, 4986, 5206, 5430, 5658, 5890, 6128, 6371, 6619,
             6873, 7133, 7400, 7673, 7954, 8243, 8541, 8847, 9163, 9490, 9827,
             10176, 10538, 10913, 11303, 11708, 12131, 12572, 13032, 13514,
             14019, 14550, 15108, 15697, 16319, 16977, 17675, 18418, 19210,
             20057, 20965, 21943, 22998, 24142, 25386, 26746, 28239, 29887,
             31716, 33759, 36059, 38667, 41653, 45107, 49152, 53955, 59758,
             66912, 75958, 87769, 103854, 127062, 163499, 229038, 381885,
             1145887 >>
        targetDistance == pin.depth * 5
        heightAboveListener == pin.trimHeight * 10 - 28
        n == Cardinality({k \in 1..90 :
                 tanOfHalfOdd[k] * targetDistance <= Abs(heightAboveListener) * 10000})
        optimalAngle == IF heightAboveListener < 0 THEN -n ELSE n
    IN  /\ pin' = flushWatchers(pin, setTiltAngle(pin, optimalAngle))
        /\ pout' = [op |-> "autoCalculateTilt"]
        /\ SchedIdle

\* suggestTrimHeight: Math.round(height * 0.65 * 2) / 2, in half metres;
\* canFly is mountingOptions?.canFly ?? true.
CallSuggestTrimHeight ==
    LET canFly == IF Len(mountingOptions(pin)) = 0 THEN TRUE
                  ELSE mountingOptions(pin)[1].canFly
        suggested == IF ~canFly THEN maxDeploymentHeight(pin)
                     ELSE (13 * pin.height + 10) \div 20
    IN  /\ pin' = flushWatchers(pin, setTrimHeight(pin, suggested))
        /\ pout' = [op |-> "suggestTrimHeight"]
        /\ SchedIdle

InitStores ==
    /\ SchedInit({"topDown"})
    /\ pin = [width |-> Metres(15), depth |-> Metres(20), height |-> Metres(6),
              selectedSystemType |-> "line_array_lr",
              selectedSpeakerId |-> "jbl-vrx932lap",
              quantity |-> 4,
              selectedSubId |-> "jbl-vrx918sp",
              subQuantity |-> 2,
              trimHeight |-> Metres(4),
              tiltAngle |-> 8,
              horizontalAim |-> 0,
              deploymentMode |-> "L/R Stereo",
              arraySpread |-> Metres(8),
              centerFill |-> [enabled |-> FALSE, modelId |-> "", gain |-> 0]]
    /\ pout = [op |-> "init"]

SpecRoom ==
    InitStores /\ [][\/ CallSetWidth \/ CallSetDepth \/ CallSetHeight
                     \/ CallSetDimensions \/ CallApplyPreset
                     \/ CallRoomResetToDefaults]_vars

SpecTrim ==
    InitStores /\ [][\/ CallSetTrimHeight \/ CallSuggestTrimHeight \/ CallSetHeight
                     \/ CallApplyPreset \/ CallSelectSpeaker \/ CallSetSystemType
                     \/ CallResetToDefaults \/ CallRoomResetToDefaults]_vars

SpecTilt ==
    InitStores /\ [][\/ CallSetTiltAngle \/ CallAutoCalculateTilt \/ CallSelectSpeaker
                     \/ CallSetSystemType \/ CallResetToDefaults]_vars

SpecQuantity ==
    InitStores /\ [][\/ CallSetQuantity \/ CallSelectSpeaker \/ CallSetSystemType
                     \/ CallResetToDefaults]_vars

SpecSub ==
    InitStores /\ [][\/ CallSelectSpeaker \/ CallSelectSubwoofer \/ CallSetSubQuantity
                     \/ CallSetSystemType \/ CallResetToDefaults]_vars

SpecSpread ==
    InitStores /\ [][\/ CallSetArraySpread \/ CallSetWidth \/ CallApplyPreset
                     \/ CallResetToDefaults \/ CallRoomResetToDefaults]_vars

\* ---------------------------------------------------------------------
\* Store constraints
\* ---------------------------------------------------------------------

C21_TrimWithinMountingAndRoom ==
    pin.trimHeight <= maxDeploymentHeight(pin)

C27_QuantityWithinArraySize ==
    1 <= pin.quantity /\ pin.quantity <= maxArraySize(pin)

\* C28: whenever no subwoofer is selected, subQuantity is 0.
C28_NoSubNoQuantity ==
    pin.selectedSubId = Undefined => pin.subQuantity = 0

\* C29: after any sequence of store actions,
\* 0 <= arraySpread <= max(0, room width - 2 m).
C29_SpreadWithinRoom ==
    0 <= pin.arraySpread /\ pin.arraySpread <= Max(0, pin.width - Metres(2))

\* ---------------------------------------------------------------------
\* Computing flags and pointer events
\* ---------------------------------------------------------------------

\* C24: with SPL display on, while the most recently created job of a
\* canvas has not reached the end of its grid, the computing flag of the
\* canvas and the panel's flag for it are true; a flag becomes false only
\* when no job holding the current token is still running.
C24_ComputingWhileSampling ==
    [][\A s \in Surfaces :
          LET latestSampling ==
                  /\ jobs'[s] # <<>>
                  /\ jobs'[s][Len(jobs'[s])].currentGen = heatmapGeneration'[s]
                  /\ ~jobs'[s][Len(jobs'[s])].ended
              currentRunning ==
                  \E i \in 1..Len(jobs'[s]) :
                      /\ jobs'[s][i].currentGen = heatmapGeneration'[s]
                      /\ ~jobs'[s][i].ended
          IN  /\ (showSPL' /\ s \in Mounted' /\ latestSampling)
                    => (isComputingHeatmap'[s] /\ panelComputing'[s])
              /\ (isComputingHeatmap[s] /\ ~isComputingHeatmap'[s])
                    => ~currentRunning
              /\ (panelComputing[s] /\ ~panelComputing'[s])
                    => ~currentRunning]_vars

\* C25: after a redraw executed with SPL display off the computing flag of
\* the canvas is false and the panel's flag has been cleared, and the flag
\* becomes true again only by a redraw executed with SPL display on.  A
\* draw() of the canvas has executed in a step when its frame callback has
\* run, or the panel has called it and it has taken a token.
C25_RedrawWithSplOffCancels ==
    [][\A s \in Surfaces :
          LET drawExecuted ==
                  \/ rafId[s] /\ ~rafId'[s]
                  \/ heatmapGeneration'[s] > heatmapGeneration[s]
          IN  /\ (drawExecuted /\ ~showSPL)
                    => (~isComputingHeatmap'[s] /\ ~panelComputing'[s])
              /\ (~isComputingHeatmap[s] /\ isComputingHeatmap'[s])
                    => (drawExecuted /\ showSPL)]_vars

\* ---- pointer events ----
\* Under SpecPointer pin holds, for each canvas, mousePos ("null" or a
\* position inside the padding) and probeData (<<>> for null, else what the
\* probed level was computed from).  The overlay canvas is painted from the
\* two by drawProbeOverlay and holds no state of its own.

\* Variant: the pointer handler asks for a full redraw.
drawProbeOverlay_requestDraw(h, s) == requestDraw(h, s)

\* drawProbeOverlay(): clears and repaints the overlay canvas only.
drawProbeOverlay(h, s) == h

\* handleMouseMove of a mounted canvas; inside tells whether the pointer is
\* within the padded drawing area.
handleMouseMove(s) ==
    /\ s \in Mounted
    /\ \E inside \in BOOLEAN :
          IF ~inside
          THEN /\ pin' = [pin EXCEPT ![s] = [mousePos |-> "null", probeData |-> <<>>]]
               /\ SetHeat(Heat)
          ELSE IF selectedSpeaker = Undefined
          THEN /\ pin' = [pin EXCEPT ![s].mousePos = "inside"]
               /\ SetHeat(Heat)
          ELSE /\ pin' = [pin EXCEPT ![s] =
                            [mousePos |-> "inside",
                             probeData |-> IF showSPL
                                           THEN <<[speaker |-> selectedSpeaker,
                                                   dep |-> params]>>
                                           ELSE <<>>]]
               /\ SetHeat(drawProbeOverlay(Heat, s))
    /\ UNCHANGED <<params, selectedSpeakerId, showSPL, viewMode, lastRowInRoom,
                   debounceId, timers, changes, firedSince, pout>>

\* handleMouseLeave of a mounted canvas.
handleMouseLeave(s) ==
    /\ s \in Mounted
    /\ pin' = [pin EXCEPT ![s] = [mousePos |-> "null", probeData |-> <<>>]]
    /\ SetHeat(Heat)
    /\ UNCHANGED <<params, selectedSpeakerId, showSPL, viewMode, lastRowInRoom,
                   debounceId, timers, changes, firedSince, pout>>

InitPointer ==
    /\ SchedInit({"topDown", "sideElevation"})
    /\ pin = [s \in Surfaces |-> [mousePos |-> "null", probeData |-> <<>>]]
    /\ pout = NotEvaluated

SpecPointer ==
    InitPointer /\ [][\/ Next
                      \/ \E s \in Surfaces : handleMouseMove(s)
                      \/ \E s \in Surfaces : handleMouseLeave(s)]_vars

\* C26: a step that changes mousePos or probeData of a canvas (pointer
\* movement, pointer leave) creates, cancels and restarts no job: the
\* generation counters, the jobs with their cursors, the computing flags, the
\* panel's flags and the pending frame callbacks and timers are unchanged.
C26_PointerLeavesJobsAlone ==
    [][pin' # pin =>
          UNCHANGED <<heatmapGeneration, jobs, isComputingHeatmap, panelComputing,
                      rafId, rafQueue, timers, debounceId>>]_vars

\* The pointer has moved over a canvas while its current job was in
\* flight: the probe was computed from parameters newer than the ones the
\* job was created with, and the job has sampled part of its grid.
C26_Witness ==
    \E s \in Mounted :
        /\ jobs[s] # <<>>
        /\ jobs[s][Len(jobs[s])].currentGen = heatmapGeneration[s]
        /\ ~jobs[s][Len(jobs[s])].ended
        /\ isComputingHeatmap[s]
        /\ jobs[s][Len(jobs[s])].cells # <<>>
        /\ pin[s].mousePos = "inside"
        /\ pin[s].probeData # <<>>
        /\ pin[s].probeData[1].dep > jobs[s][Len(jobs[s])].snap

====
